---- MODULE Spec2Model ----
(***************************************************************************)
(* State-machine model of the datalad-gooey filesystem browser core:       *)
(*   - GooeyDataladCmdExec   (datalad_cmd.py): single-worker executor      *)
(*   - GooeyFilesystemBrowser (fsbrowser.py): tree, annotation queue,      *)
(*     file-system watcher and change inspection                           *)
(*   - FSBrowserItem          (fsbrowser_item.py): the tree nodes          *)
(* Paths are sequences of names; the browsed root directory is <<>>.       *)
(***************************************************************************)
EXTENDS Integers, Sequences, FiniteSets, TLC

\* ------------------------------------------------------------------ bounds
MaxNodes == 6
MaxExec == 2
MaxCalls == 3
MaxResults == 1
MaxFsOps == 1
MaxConn == 2
MaxChan == 2

\* ------------------------------------------------------------ the universe
None == "None"
Root == <<>>
Paths == { <<>>, <<"a">>, <<"ds">>, <<"ds", "f">>, <<"sec">> }

\* what the listing collaborator reports as the type of a path
PathType(p) ==
    CASE p = <<>> -> "directory"
      [] p = <<"a">> -> "file"
      [] p = <<"ds">> -> "dataset"
      [] p = <<"ds", "f">> -> "file"
      [] p = <<"sec">> -> "directory"
      [] OTHER -> "unknown"

\* the directories the listing collaborator cannot read
PermissionDenied(p) == p = <<"sec">>

ParentPath(p) == SubSeq(p, 1, Len(p) - 1)
PathName(p) == p[Len(p)]
IsPrefix(p, q) == Len(p) <= Len(q) /\ SubSeq(q, 1, Len(p)) = p
\* Path.relative_to: the part of q below p
RelativeTo(q, p) == SubSeq(q, Len(p) + 1, Len(q))
JoinPath(p, rel) == p \o rel

VARIABLES
    \* ---- GooeyDataladCmdExec
    workq,      \* work queue of the ThreadPoolExecutor (max_workers=1)
    running,    \* the command the worker thread is executing, or None
    nres,       \* results the running command has yielded so far
    nexec,      \* number of execute() calls so far
    events,     \* log of the signals emitted by the worker thread
    chan,       \* queued signal deliveries to the browser's slots
    \* ---- GooeyFilesystemBrowser
    nodes,      \* arena of FSBrowserItem instances, indexed by identity
    queue,      \* _annotation_queue (a Python set of items)
    enqOrder,   \* order in which the members of queue were inserted
    watched,    \* directories held by the QFileSystemWatcher
    conn,       \* connections of result_received to _status_result_receiver
    timerActive,\* _annotation_timer is running
    \* ---- environment
    disk,       \* paths that exist on disk
    notif,      \* directoryChanged signals not yet delivered
    nfsops,     \* number of disk changes so far
    \* ---- what the last step did
    last        \* the operation, its input, and the signals it emitted

exec_vars == <<workq, running, nres, nexec, events, chan>>
fsb_vars == <<nodes, queue, enqOrder, watched, conn, timerActive>>
env_vars == <<disk, notif, nfsops>>
vars == <<workq, running, nres, nexec, events, chan, nodes, queue, enqOrder,
          watched, conn, timerActive, disk, notif, nfsops, last>>

NoCmd == [sid |-> 0, cmd |-> None, dataset |-> <<>>, path |-> {}]

\* what one step reports: the operation, its input, the item_annotation_available
\* signals it emitted, the emitDataChanged calls, the drain order, the items a
\* command was submitted for, the items it queued and those of them that were
\* queued already, the exception that ended it
Step(op, arg) ==
    [op |-> op, arg |-> arg, emitted |-> {}, changed |-> {}, drained |-> <<>>,
     submitted |-> {}, enq |-> {}, dup |-> {}, error |-> None]

\* ============================================================ the executor
\* GooeyDataladCmdExec.execute: hand the call to the thread pool and return
execute(wq, sid, cmd, dataset, path) ==
    Append(wq, [sid |-> sid, cmd |-> cmd, dataset |-> dataset, path |-> path])

\* the records a backend command can yield (return_type='generator')
StatusStates == {"clean", "modified"}
Results(c) ==
    IF c.cmd = "status"
    THEN { [action |-> "status", path |-> JoinPath(c.dataset, rel), state |-> s,
            status |-> "ok", message |-> None] :
                rel \in c.path, s \in StatusStates }
         \cup
         { [action |-> "status", path |-> JoinPath(c.dataset, rel), state |-> None,
            status |-> "error", message |-> "msg"] : rel \in c.path }
    ELSE { [action |-> c.cmd, path |-> c.dataset, state |-> None,
            status |-> "ok", message |-> None] }

\* a signal emitted in the worker thread is queued once per connected slot
Copies(x, n) == [i \in 1..n |-> x]

\* the calls of execute() made by callers other than the browser
Calls ==
    { [cmd |-> "get", dataset |-> Root, path |-> {}],
      [cmd |-> "status", dataset |-> <<"ds">>, path |-> {<<"f">>}] }

\* execute() that returns only once the pool has nothing to do
Execute_waits_for_idle ==
    /\ nexec < MaxCalls
    /\ running = NoCmd
    /\ workq = <<>>
    /\ \E c \in Calls :
        /\ workq' = execute(workq, nexec + 1, c.cmd, c.dataset, c.path)
        /\ last' = Step("execute", c.cmd)
    /\ nexec' = nexec + 1
    /\ UNCHANGED <<running, nres, events, chan>>
    /\ UNCHANGED fsb_vars
    /\ UNCHANGED env_vars

\* execute(): ThreadPoolExecutor.submit puts the call into the pool's
\* unbounded work queue and returns
Execute ==
    /\ nexec < MaxCalls
    /\ \E c \in Calls :
        /\ workq' = execute(workq, nexec + 1, c.cmd, c.dataset, c.path)
        /\ last' = Step("execute", c.cmd)
    /\ nexec' = nexec + 1
    /\ UNCHANGED <<running, nres, events, chan>>
    /\ UNCHANGED fsb_vars
    /\ UNCHANGED env_vars

\* a worker that takes the call submitted last
WorkerStart_takes_last ==
    /\ running = NoCmd
    /\ workq # <<>>
    /\ running' = workq[Len(workq)]
    /\ workq' = SubSeq(workq, 1, Len(workq) - 1)
    /\ nres' = 0
    /\ events' = Append(events, [ev |-> "started",
                                 sid |-> workq[Len(workq)].sid])
    /\ last' = Step("started", workq[Len(workq)].sid)
    /\ UNCHANGED <<nexec, chan>>
    /\ UNCHANGED fsb_vars
    /\ UNCHANGED env_vars

\* a pool with a second worker: the next call is taken while a command runs
WorkerStart_second_worker ==
    /\ workq # <<>>
    /\ running' = Head(workq)
    /\ workq' = Tail(workq)
    /\ nres' = 0
    /\ events' = Append(events, [ev |-> "started", sid |-> Head(workq).sid])
    /\ last' = Step("started", Head(workq).sid)
    /\ UNCHANGED <<nexec, chan>>
    /\ UNCHANGED fsb_vars
    /\ UNCHANGED env_vars

\* _cmdexec_thread, lines 61-73: the single worker takes the next call and
\* emits execution_started
WorkerStart ==
    /\ running = NoCmd
    /\ workq # <<>>
    /\ running' = Head(workq)
    /\ workq' = Tail(workq)
    /\ nres' = 0
    /\ events' = Append(events, [ev |-> "started", sid |-> Head(workq).sid])
    /\ last' = Step("started", Head(workq).sid)
    /\ UNCHANGED <<nexec, chan>>
    /\ UNCHANGED fsb_vars
    /\ UNCHANGED env_vars

\* _cmdexec_thread, lines 80-81: one result of the generator is emitted
WorkerResult ==
    /\ running # NoCmd
    /\ nres < MaxResults
    /\ Len(chan) + conn <= MaxChan
    /\ \E r \in Results(running) :
        /\ chan' = chan \o Copies([kind |-> "result", res |-> r], conn)
        /\ last' = Step("result", r)
    /\ nres' = nres + 1
    /\ events' = Append(events, [ev |-> "result", sid |-> running.sid])
    /\ UNCHANGED <<workq, running, nexec>>
    /\ UNCHANGED fsb_vars
    /\ UNCHANGED env_vars

\* _cmdexec_thread, lines 75-81: getattr(dlapi, cmd) or the command raises.
\* Nothing catches it in _cmdexec_thread; the pool stores the exception in the
\* future nobody keeps and the worker goes on to the next call.
WorkerRaise ==
    /\ running # NoCmd
    /\ running' = NoCmd
    /\ nres' = 0
    /\ last' = Step("raised", running.sid)
    /\ UNCHANGED <<workq, nexec, events, chan>>
    /\ UNCHANGED fsb_vars
    /\ UNCHANGED env_vars

\* _cmdexec_thread, lines 83-88: the generator is exhausted,
\* execution_finished is emitted
WorkerFinish ==
    /\ running # NoCmd
    /\ Len(chan) + conn <= MaxChan
    /\ running' = NoCmd
    /\ nres' = 0
    /\ events' = Append(events, [ev |-> "finished", sid |-> running.sid])
    /\ chan' = chan \o Copies([kind |-> "finished", res |-> running.cmd], conn)
    /\ last' = Step("finished", running.sid)
    /\ UNCHANGED <<workq, nexec>>
    /\ UNCHANGED fsb_vars
    /\ UNCHANGED env_vars

\* ========================================================== FSBrowserItem
NotFound == 0
RootItem == 1

\* FSBrowserItem.__init__: parent is an item identity, 0 for none
NewItem(p, par) ==
    [pathobj |-> p, type |-> None, state |-> None, parent |-> par,
     children |-> {}, disabled |-> FALSE, indicator |-> "default",
     expanded |-> FALSE]

\* one record of the listing collaborator for path p
LsdirResult(p) ==
    IF PermissionDenied(p)
    THEN [path |-> p, type |-> PathType(p), status |-> "error",
          message |-> "Permissions denied"]
    ELSE [path |-> p, type |-> PathType(p), status |-> "ok", message |-> None]

\* update_from_lsdir_result that misses the permission error and goes on as
\* for a readable entry
update_from_lsdir_result_misses_error(it, res) ==
    LET typed == [it EXCEPT !.type = res.type]
        on == [typed EXCEPT
                 !.disabled = FALSE,
                 !.indicator = IF res.type \in {"directory", "dataset"}
                               THEN "show" ELSE @]
    IN  IF res.type = "directory" THEN [on EXCEPT !.state = ""] ELSE on

\* FSBrowserItem.update_from_lsdir_result
update_from_lsdir_result(it, res) ==
    LET typed == [it EXCEPT !.type = res.type]
    IN  IF res.status = "error" /\ res.message = "Permissions denied"
        THEN [typed EXCEPT !.disabled = TRUE,
                           !.indicator = IF it.children = {} THEN "dont" ELSE @]
        ELSE LET on == [typed EXCEPT
                          !.disabled = FALSE,
                          !.indicator = IF res.type \in {"directory", "dataset"}
                                        THEN "show" ELSE @]
             IN  IF res.type = "directory" THEN [on EXCEPT !.state = ""] ELSE on

\* FSBrowserItem.update_from_status_result: the state of the record, or its
\* message when the record has status error and no state; the records of
\* the model carry no type
update_from_status_result(it, res) ==
    LET state == IF res.status = "error" /\ res.message # None
                    /\ res.state = None
                 THEN res.message ELSE res.state
    IN  IF state # None THEN [it EXCEPT !.state = state] ELSE it

\* FSBrowserItem.from_lsdir_result: a new item, registered with its parent;
\* ns is the arena, the new item's identity is Len(ns) + 1
from_lsdir_result(ns, res, par) ==
    LET id == Len(ns) + 1
        withChild == IF par = 0 THEN ns
                     ELSE [ns EXCEPT ![par].children = @ \cup {id}]
    IN  Append(withChild, update_from_lsdir_result(NewItem(res.path, par), res))

\* FSBrowserItem.removeChild: detach the item, its own children stay with it
removeChild(ns, par, id) ==
    [ns EXCEPT ![par].children = @ \ {id}, ![id].parent = 0]

\* FSBrowserItem.children_
children_(ns, id) == ns[id].children

\* the entries a shallow listing of directory p returns
Listing(d, p) == { q \in d : Len(q) = Len(p) + 1 /\ ParentPath(q) = p }

\* FSBrowserItem.from_path(children=True, parent=item): one child item per
\* entry of the listing
RECURSIVE AddChildren(_, _, _)
AddChildren(ns, par, entries) ==
    IF entries = {} THEN ns
    ELSE LET q == CHOOSE x \in entries :
                    \A y \in entries : Len(x) <= Len(y)
         IN  AddChildren(from_lsdir_result(ns, LsdirResult(q), par), par,
                         entries \ {q})

\* items that can be reached from the root item
RECURSIVE Attached(_, _)
Attached(ns, id) ==
    \/ id = RootItem
    \/ /\ ns[id].parent # 0
       /\ id \in ns[ns[id].parent].children
       /\ Attached(ns, ns[id].parent)

\* ================================================== GooeyFilesystemBrowser
\* _get_item_from_path: walk down from the root item by name; NotFound
\* stands for the ValueError
RECURSIVE WalkParts(_, _, _)
WalkParts(ns, item, parts) ==
    IF parts = <<>> THEN item
    ELSE LET m == { c \in ns[item].children :
                      PathName(ns[c].pathobj) = Head(parts) }
         IN  IF m = {} THEN NotFound
             ELSE WalkParts(ns, CHOOSE c \in m : TRUE, Tail(parts))

_get_item_from_path(ns, path) ==
    IF path = ns[RootItem].pathobj THEN RootItem
    ELSE WalkParts(ns, RootItem, RelativeTo(path, ns[RootItem].pathobj))

\* _queue_item_for_annotation that starts a new set instead of adding
_queue_item_for_annotation_resets(q, item) == {item}

\* _queue_item_for_annotation: self._annotation_queue.add(item)
_queue_item_for_annotation(q, item) == q \cup {item}

\* the insertion order of the members of the queue
Inserted(order, q, item) == IF item \in q THEN order ELSE Append(order, item)

\* _annotate_item without the comparison with the previous state
_annotate_item_unconditional(ns, item, props) ==
    [ns |-> [ns EXCEPT ![item].state = props.state], changed |-> {item}]

\* _annotate_item: the state column is written, and emitDataChanged called,
\* only when the state differs
_annotate_item(ns, item, props) ==
    IF props.state # ns[item].state
    THEN [ns |-> [ns EXCEPT ![item].state = props.state], changed |-> {item}]
    ELSE [ns |-> ns, changed |-> {}]

\* datalad.utils.get_dataset_root: the closest dataset at or above the path
\* (above it, when the path is no directory); HasDatasetRoot is "is not None"
DatasetsAbove(d, p) ==
    LET start == IF p \in d /\ PathType(p) \in {"directory", "dataset"}
                 THEN p ELSE ParentPath(p)
    IN  { q \in d : IsPrefix(q, start) /\ PathType(q) = "dataset" }

HasDatasetRoot(d, p) == DatasetsAbove(d, p) # {}

get_dataset_root(d, p) ==
    CHOOSE q \in DatasetsAbove(d, p) :
        \A r \in DatasetsAbove(d, p) : Len(r) <= Len(q)

\* FSBrowserItem.update_from(newitem): patch the children of item to the fresh
\* listing, by name: children no longer listed are removed, listed ones are
\* updated in place, new ones are added. touched: the non-directory children
\* added or updated.
RECURSIVE RemoveAll(_, _, _)
RemoveAll(ns, par, ids) ==
    IF ids = {} THEN ns
    ELSE LET c == CHOOSE x \in ids : TRUE
         IN  RemoveAll(removeChild(ns, par, c), par, ids \ {c})

\* update_from that replaces every child by a new item of the fresh listing
update_from_replaces_children(ns, item, d) ==
    LET new == Listing(d, ns[item].pathobj)
        old == children_(ns, item)
        removed == RemoveAll(ns, item, old)
        added == AddChildren(removed, item, new)
    IN  [ns |-> added,
         touched |-> { c \in children_(added, item) :
                        added[c].type # "directory" }]

update_from(ns, item, d) ==
    LET new == Listing(d, ns[item].pathobj)
        old == children_(ns, item)
        gone == { c \in old : ns[c].pathobj \notin new }
        kept == old \ gone
        fresh == { q \in new : \A c \in old : ns[c].pathobj # q }
        removed == RemoveAll(ns, item, gone)
        updated == [n \in DOMAIN removed |->
                      IF n \in kept
                      THEN update_from_lsdir_result(
                               removed[n], LsdirResult(removed[n].pathobj))
                      ELSE removed[n]]
        added == AddChildren(updated, item, fresh)
    IN  [ns |-> added,
         touched |-> { c \in children_(added, item) :
                        added[c].type # "directory" }]

\* an item the user can reach in the tree widget: every ancestor is expanded
RECURSIVE Visible(_, _)
Visible(ns, id) ==
    \/ id = RootItem
    \/ /\ ns[id].parent # 0
       /\ id \in ns[ns[id].parent].children
       /\ ns[ns[id].parent].expanded
       /\ Visible(ns, ns[id].parent)

\* _watch_dir: QFileSystemWatcher.addPath takes only paths that exist
_watch_dir(w, d, path) == IF path \in d THEN w \cup {path} ELSE w

\* _unwatch_dir without the removePath() call
_unwatch_dir_keeps_path(w, path) == w

\* _unwatch_dir: QFileSystemWatcher.removePath
_unwatch_dir(w, path) == w \ {path}

\* _populate_item without the test of childCount()
_populate_item_again(ns, d, item) ==
    AddChildren(ns, item, Listing(d, ns[item].pathobj))

\* _populate_item: list the directory if the item has no children yet
_populate_item(ns, d, item) ==
    IF ns[item].children = {}
    THEN AddChildren(ns, item, Listing(d, ns[item].pathobj))
    ELSE ns

\* tw.itemExpanded: _watch_dir, then _populate_item
ItemExpanded ==
    \E item \in DOMAIN nodes :
        /\ Visible(nodes, item)
        /\ ~nodes[item].expanded
        /\ ~nodes[item].disabled
        /\ nodes[item].children # {} \/ nodes[item].indicator = "show"
        /\ Len(_populate_item(nodes, disk, item)) <= MaxNodes
        /\ watched' = _watch_dir(watched, disk, nodes[item].pathobj)
        /\ nodes' = [_populate_item(nodes, disk, item) EXCEPT
                        ![item].expanded = TRUE]
        /\ IF nodes[item].children = {}
           THEN /\ queue' = _queue_item_for_annotation(queue, item)
                /\ enqOrder' = Inserted(enqOrder, queue, item)
                /\ last' = [Step("expand", item) EXCEPT
                              !.enq = {item}, !.dup = {item} \cap queue]
           ELSE /\ UNCHANGED <<queue, enqOrder>>
                /\ last' = Step("expand", item)
        /\ UNCHANGED <<conn, timerActive>>
        /\ UNCHANGED exec_vars
        /\ UNCHANGED env_vars

\* tw.itemCollapsed: _unwatch_dir; the children stay in place
ItemCollapsed ==
    \E item \in DOMAIN nodes :
        /\ Visible(nodes, item)
        /\ nodes[item].expanded
        /\ watched' = _unwatch_dir(watched, nodes[item].pathobj)
        /\ nodes' = [nodes EXCEPT ![item].expanded = FALSE]
        /\ last' = Step("collapse", item)
        /\ UNCHANGED <<queue, enqOrder, conn, timerActive>>
        /\ UNCHANGED exec_vars
        /\ UNCHANGED env_vars

\* ---- _process_item_annotation_queue
\* the state the while loop works on
DrainState ==
    [ns |-> nodes, wq |-> workq, nexec |-> nexec, conn |-> conn,
     emitted |-> {}, changed |-> {}, submitted |-> {}]

RECURSIVE AnnotateAll(_, _, _)
AnnotateAll(st, items, props) ==
    IF items = {} THEN st
    ELSE LET c == CHOOSE x \in items : TRUE
             r == _annotate_item(st.ns, c, props)
         IN  AnnotateAll([st EXCEPT !.ns = r.ns,
                                    !.emitted = @ \cup {c},
                                    !.changed = @ \cup r.changed],
                         items \ {c}, props)

\* the loop body with the test of the child type turned around
DrainItem_annotates_directories(st, d, item) ==
    LET ipath == st.ns[item].pathobj
        kids == { c \in children_(st.ns, item) : st.ns[c].type = "directory" }
    IN  IF ~HasDatasetRoot(d, ipath)
        THEN AnnotateAll(st, kids, [state |-> "untracked"])
        ELSE LET dsroot == get_dataset_root(d, ipath)
                 paths_to_investigate ==
                     { RelativeTo(st.ns[c].pathobj, dsroot) : c \in kids }
                 connected == [st EXCEPT !.conn = @ + 1]
             IN  IF paths_to_investigate # {}
                 THEN [connected EXCEPT
                         !.wq = execute(@, st.nexec + 1, "status", dsroot,
                                        paths_to_investigate),
                         !.nexec = @ + 1,
                         !.submitted = @ \cup {item}]
                 ELSE connected

\* the loop body without the test of paths_to_investigate
DrainItem_submits_without_paths(st, d, item) ==
    LET ipath == st.ns[item].pathobj
        kids == { c \in children_(st.ns, item) : st.ns[c].type # "directory" }
    IN  IF ~HasDatasetRoot(d, ipath)
        THEN AnnotateAll(st, kids, [state |-> "untracked"])
        ELSE LET dsroot == get_dataset_root(d, ipath)
                 paths_to_investigate ==
                     { RelativeTo(st.ns[c].pathobj, dsroot) : c \in kids }
                 connected == [st EXCEPT !.conn = @ + 1]
             IN  [connected EXCEPT
                    !.wq = execute(@, st.nexec + 1, "status", dsroot,
                                   paths_to_investigate),
                    !.nexec = @ + 1,
                    !.submitted = @ \cup {item}]

\* the body of the while loop for one popped item
DrainItem(st, d, item) ==
    LET ipath == st.ns[item].pathobj
        kids == { c \in children_(st.ns, item) : st.ns[c].type # "directory" }
    IN  IF ~HasDatasetRoot(d, ipath)
        THEN AnnotateAll(st, kids, [state |-> "untracked"])
        ELSE LET dsroot == get_dataset_root(d, ipath)
                 paths_to_investigate ==
                     { RelativeTo(st.ns[c].pathobj, dsroot) : c \in kids }
                 connected == [st EXCEPT !.conn = @ + 1]
             IN  IF paths_to_investigate # {}
                 THEN [connected EXCEPT
                         !.wq = execute(@, st.nexec + 1, "status", dsroot,
                                        paths_to_investigate),
                         !.nexec = @ + 1,
                         !.submitted = @ \cup {item}]
                 ELSE connected

RECURSIVE DrainAll(_, _, _)
DrainAll(st, d, order) ==
    IF order = <<>> THEN st
    ELSE DrainAll(DrainItem(st, d, Head(order)), d, Tail(order))

\* set.pop() hands out the members in an order the set implementation picks
PopOrders(q) ==
    { o \in [1..Cardinality(q) -> q] :
        \A i, j \in 1..Cardinality(q) : i # j => o[i] # o[j] }

\* QTimer.stop() and QTimer.start(interval) of the annotation timer; the
\* argument is whether the timer is running before the call
_annotation_timer_stop(t) == FALSE

\* the handler without the restart of the timer at its end
_annotation_timer_start_skipped(t) == t

_annotation_timer_start(t) == TRUE

\* the handler for an empty queue with stop() ahead of the test of the queue
_process_empty_queue_stops_timer ==
    /\ last' = Step("tick", <<>>)
    /\ timerActive' = _annotation_timer_stop(timerActive)
    /\ UNCHANGED <<nodes, queue, enqOrder, conn, workq, nexec>>

\* lines 116-117: nothing is queued, the handler returns at once
_process_empty_queue ==
    /\ last' = Step("tick", <<>>)
    /\ UNCHANGED <<nodes, queue, enqOrder, conn, workq, nexec, timerActive>>

\* the timeout slot of the annotation timer. It runs to its end in the
\* browser's thread: stop(), the while loop and start() are one step
_process_item_annotation_queue ==
    /\ timerActive
    /\ IF queue = {}
       THEN _process_empty_queue
       ELSE \E order \in PopOrders(queue) :
              LET st == DrainAll(DrainState, disk, order)
              IN  /\ st.nexec <= MaxExec
                  /\ st.conn <= MaxConn
                  /\ nodes' = st.ns
                  /\ workq' = st.wq
                  /\ nexec' = st.nexec
                  /\ conn' = st.conn
                  /\ queue' = {}
                  /\ enqOrder' = <<>>
                  /\ last' = [Step("tick", enqOrder) EXCEPT
                                !.emitted = st.emitted,
                                !.changed = st.changed,
                                !.drained = order,
                                !.submitted = st.submitted]
                  /\ timerActive' =
                        _annotation_timer_start(
                            _annotation_timer_stop(timerActive))
    /\ UNCHANGED <<watched, running, nres, events, chan>>
    /\ UNCHANGED env_vars

\* ---- delivery of the executor's signals in the browser's thread
\* _status_result_receiver
_status_result_receiver(res) ==
    IF res.action # "status" \/ res.path = None \/ res.state = None
    THEN /\ last' = Step("deliver", res)
         /\ UNCHANGED nodes
    ELSE LET item == _get_item_from_path(nodes, res.path)
         IN  IF item = NotFound
             THEN \* the ValueError of _get_item_from_path leaves the slot
                  /\ last' = [Step("deliver", res) EXCEPT !.error = "ValueError"]
                  /\ UNCHANGED nodes
             ELSE LET r == _annotate_item(nodes, item, [state |-> res.state])
                  IN  /\ nodes' = r.ns
                      /\ last' = [Step("deliver", res) EXCEPT
                                    !.emitted = {item},
                                    !.changed = r.changed]

\* _disconnect_status_result_receiver: returns early or prints; no
\* disconnect() is called
_disconnect_status_result_receiver(cmdname) ==
    /\ last' = Step("deliver_finished", cmdname)
    /\ UNCHANGED nodes

Deliver ==
    /\ chan # <<>>
    /\ chan' = Tail(chan)
    /\ IF Head(chan).kind = "result"
       THEN _status_result_receiver(Head(chan).res)
       ELSE _disconnect_status_result_receiver(Head(chan).res)
    /\ UNCHANGED <<queue, enqOrder, watched, conn, timerActive>>
    /\ UNCHANGED <<workq, running, nres, nexec, events>>
    /\ UNCHANGED env_vars

\* item_requires_annotation emitted for each of the items, one after another
RECURSIVE QueueAll(_, _)
QueueAll(qo, items) ==
    IF items = {} THEN qo
    ELSE LET c == CHOOSE x \in items : \A y \in items : x <= y
         IN  QueueAll([q |-> _queue_item_for_annotation(qo.q, c),
                       order |-> Inserted(qo.order, qo.q, c)],
                      items \ {c})

\* ---- _inspect_changed_dir, the slot of QFileSystemWatcher.directoryChanged
\* the branch for a path without item, with the ValueError of the lookup
\* not caught
_inspect_unresolved_raises(path) ==
    /\ last' = [Step("inspect", path) EXCEPT !.error = "ValueError"]
    /\ UNCHANGED <<nodes, queue, enqOrder, watched>>

\* lines 230-238: the path resolves to no item; the ValueError is caught,
\* the path is taken off the watcher and the handler returns
_inspect_unresolved(path) ==
    /\ watched' = _unwatch_dir(watched, path)
    /\ last' = Step("inspect", path)
    /\ UNCHANGED <<nodes, queue, enqOrder>>

\* the branch for a vanished path whose item has no parent, with a plain
\* return in the place of the raise
_lost_root_dir_returns(path) ==
    /\ last' = Step("inspect", path)
    /\ UNCHANGED <<nodes, queue, enqOrder, watched>>

\* the branch for a vanished path whose item has no parent (the root item):
\* NotImplementedError leaves the slot, nothing is removed
_lost_root_dir(path) ==
    /\ last' = [Step("inspect", path) EXCEPT !.error = "NotImplementedError"]
    /\ UNCHANGED <<nodes, queue, enqOrder, watched>>

_inspect_changed_dir(path) ==
    LET item == _get_item_from_path(nodes, path)
    IN  IF item = NotFound
        THEN _inspect_unresolved(path)
        ELSE IF path \notin disk
        THEN IF nodes[item].parent = 0
             THEN _lost_root_dir(path)
             ELSE \* the item is removed; there is no return, the handler
                  \* goes on to from_path() of the vanished path, which
                  \* fails for a path that is no existing directory
                  /\ nodes' = removeChild(nodes, nodes[item].parent, item)
                  /\ last' = [Step("inspect", path) EXCEPT
                                !.error = "from_path"]
                  /\ UNCHANGED <<queue, enqOrder, watched>>
        ELSE LET r == update_from(nodes, item, disk)
             IN  /\ Len(r.ns) <= MaxNodes
                 /\ nodes' = r.ns
                 /\ queue' = QueueAll([q |-> queue, order |-> enqOrder],
                                      r.touched).q
                 /\ enqOrder' = QueueAll([q |-> queue, order |-> enqOrder],
                                         r.touched).order
                 /\ last' = [Step("inspect", path) EXCEPT
                               !.enq = r.touched,
                               !.dup = r.touched \cap queue]
                 /\ UNCHANGED watched

DirectoryChanged ==
    \E path \in notif :
        /\ notif' = notif \ {path}
        /\ _inspect_changed_dir(path)
        /\ UNCHANGED <<conn, timerActive, disk, nfsops>>
        /\ UNCHANGED exec_vars

\* ========================================================= the environment
\* a path is deleted on disk, with everything below it. The watcher signals
\* directoryChanged for a watched parent directory and for every watched
\* directory that went away, and stops watching the latter.
FsDelete ==
    \E p \in disk :
        LET gone == { q \in disk : IsPrefix(p, q) }
        IN  /\ nfsops < MaxFsOps
            /\ disk' = disk \ gone
            /\ notif' = notif \cup (watched \cap (gone \cup {ParentPath(p)}))
            /\ watched' = watched \ gone
            /\ nfsops' = nfsops + 1
            /\ last' = Step("delete", p)
            /\ UNCHANGED <<nodes, queue, enqOrder, conn, timerActive>>
            /\ UNCHANGED exec_vars

\* a path appears on disk in an existing directory
FsCreate ==
    \E p \in Paths \ disk :
        /\ nfsops < MaxFsOps
        /\ ParentPath(p) \in disk
        /\ disk' = disk \cup {p}
        /\ notif' = notif \cup (watched \cap {ParentPath(p)})
        /\ nfsops' = nfsops + 1
        /\ last' = Step("create", p)
        /\ UNCHANGED <<nodes, queue, enqOrder, watched, conn, timerActive>>
        /\ UNCHANGED exec_vars

\* ====================================================== the specifications
\* the directory trees the browser can be started on
InitDisks ==
    { d \in SUBSET Paths :
        /\ Root \in d
        /\ \A p \in d : ParentPath(p) \in d }

\* GooeyDataladCmdExec.__init__ and GooeyFilesystemBrowser.__init__
Init ==
    /\ workq = <<>>
    /\ running = NoCmd
    /\ nres = 0
    /\ nexec = 0
    /\ events = <<>>
    /\ chan = <<>>
    /\ nodes = from_lsdir_result(<<>>, LsdirResult(Root), 0)
    /\ queue = {}
    /\ enqOrder = <<>>
    /\ watched = {}
    /\ conn = 0
    /\ timerActive = TRUE
    /\ disk \in InitDisks
    /\ notif = {}
    /\ nfsops = 0
    /\ last = Step("init", 0)

Next ==
    \/ WorkerStart
    \/ WorkerResult
    \/ WorkerRaise
    \/ WorkerFinish
    \/ ItemExpanded
    \/ ItemCollapsed
    \/ _process_item_annotation_queue
    \/ Deliver
    \/ DirectoryChanged
    \/ FsDelete
    \/ FsCreate

Spec == Init /\ [][Next]_vars

\* the executor alone, called by any caller at any time
NextExec ==
    \/ Execute
    \/ WorkerStart
    \/ WorkerResult
    \/ WorkerRaise
    \/ WorkerFinish

SpecExec == Init /\ [][NextExec]_vars

\* the executor with backend commands that all come to their end without
\* raising, and a worker thread that is scheduled: the pool's worker takes
\* the next call whenever there is one, and a generator that terminates is
\* exhausted after finitely many results
NextExecNoRaise ==
    \/ Execute
    \/ WorkerStart
    \/ WorkerResult
    \/ WorkerFinish

SpecExecFair ==
    /\ Init
    /\ [][NextExecNoRaise]_vars
    /\ WF_vars(WorkerStart)
    /\ WF_vars(WorkerFinish)

\* the browser on a directory tree that does not change on disk
NextStatic ==
    \/ ItemExpanded
    \/ ItemCollapsed
    \/ _process_item_annotation_queue
    \/ WorkerStart
    \/ WorkerResult
    \/ WorkerRaise
    \/ WorkerFinish
    \/ Deliver

SpecStatic == Init /\ [][NextStatic]_vars

TypeOK ==
    /\ Len(nodes) <= MaxNodes
    /\ nexec <= MaxCalls
    /\ conn <= MaxConn
    /\ queue \subseteq DOMAIN nodes

\* ================================================================== claims
\* ---- the executor's signal log
IsEvent(i, ev, sid) == events[i] = [ev |-> ev, sid |-> sid]
CountEvents(ev, sid) ==
    Cardinality({ i \in 1..Len(events) : IsEvent(i, ev, sid) })
\* an execute() call whose run in the worker thread is over
Completed(sid) ==
    /\ sid \in 1..nexec
    /\ running.sid # sid
    /\ \A i \in 1..Len(workq) : workq[i].sid # sid

\* C1: no command emits Started before the previously started command has
\* emitted Finished: between any two Started signals of the log lies the
\* Finished signal of the earlier one.
C1_StartedOnlyAfterFinished ==
    \A i, j \in 1..Len(events) :
        (i < j /\ events[i].ev = "started" /\ events[j].ev = "started")
        => \E k \in (i + 1)..(j - 1) : IsEvent(k, "finished", events[i].sid)

\* C2: every execution that is over has emitted Started exactly once, then
\* its results, then Finished exactly once.
C2_StartedResultsFinished ==
    \A sid \in 1..nexec :
        Completed(sid) =>
            /\ CountEvents("started", sid) = 1
            /\ CountEvents("finished", sid) = 1
            /\ \A i, j, k \in 1..Len(events) :
                  (IsEvent(i, "started", sid) /\ IsEvent(j, "result", sid)
                     /\ IsEvent(k, "finished", sid))
                  => (i < j /\ j < k)

\* C3: when the backend invocation has raised, the executor has emitted an
\* error result and then Finished for that execution.
C3_RaiseEmitsErrorAndFinished ==
    last.op = "raised" =>
        /\ Len(events) >= 2
        /\ IsEvent(Len(events), "finished", last.arg)
        /\ IsEvent(Len(events) - 1, "result", last.arg)

\* ---- the browser
Reverse(sq) == [i \in 1..Len(sq) |-> sq[Len(sq) + 1 - i]]
Range(sq) == { sq[i] : i \in 1..Len(sq) }
ExpandedPaths == { nodes[n].pathobj : n \in { m \in DOMAIN nodes : nodes[m].expanded } }
NonDirChildren(item) ==
    { c \in children_(nodes, item) : nodes[c].type # "directory" }

\* C4: after any sequence of expand and collapse operations the watch set is
\* exactly the set of the paths of the expanded items.
C4_WatchSetIsExpandedPaths == watched = ExpandedPaths

C4_Witness ==
    /\ last.op = "collapse"
    /\ watched # {}
    /\ nodes[last.arg].pathobj \notin watched

\* C5: a tick drains the queued items in reverse order of their insertion.
C5_DrainsInReverseInsertionOrder ==
    (last.op = "tick" /\ last.drained # <<>>)
        => last.drained = Reverse(last.arg)

\* C6: a drained item without a containing dataset has all its non-directory
\* children in state untracked, and no command was submitted for it.
C6_NoDatasetMeansUntracked ==
    /\ [](last.op = "tick" =>
            \A item \in Range(last.drained) :
                ~HasDatasetRoot(disk, nodes[item].pathobj) =>
                    /\ \A c \in NonDirChildren(item) :
                          nodes[c].state = "untracked"
                    /\ item \notin last.submitted)
    /\ [][(/\ last'.op = "tick"
            /\ \A item \in Range(last'.drained) :
                  ~HasDatasetRoot(disk, nodes[item].pathobj))
          => (workq' = workq /\ nexec' = nexec /\ conn' = conn)]_vars

C6_Witness ==
    /\ last.op = "tick"
    /\ \E item \in Range(last.drained) :
          /\ ~HasDatasetRoot(disk, nodes[item].pathobj)
          /\ NonDirChildren(item) # {}
          /\ last.changed # {}

\* C7: queueing an item that is in the queue already leaves the queue as it
\* was, and the queue holds each item once.
C7_RequeueLeavesQueueUnchanged ==
    /\ [][(last'.op \in {"expand", "inspect"} /\ last'.enq # {}
              /\ last'.enq \subseteq queue)
          => (queue' = queue /\ Cardinality(queue') = Cardinality(queue))]_vars
    /\ [](/\ Range(enqOrder) = queue
          /\ Len(enqOrder) = Cardinality(queue))

C7_Witness == last.dup # {} /\ last.dup = last.enq /\ Cardinality(queue) >= 2

\* C8: an annotation writes the state and calls emitDataChanged only when the
\* state differs; the same record applied again changes nothing.
C8_AnnotateOnlyOnChange ==
    [][/\ \A n \in last'.emitted :
              /\ n \in DOMAIN nodes
              /\ (n \in last'.changed) <=> (nodes'[n].state # nodes[n].state)
       /\ last'.changed \subseteq last'.emitted
       /\ (/\ last'.op = "deliver"
           /\ \E n \in last'.emitted : nodes[n].state = last'.arg.state)
          => (nodes' = nodes /\ last'.changed = {})]_vars

C8_Witness ==
    /\ last.op = "deliver"
    /\ last.emitted # {}
    /\ last.changed = {}
    /\ \A n \in last.emitted : nodes[n].state = "clean"

\* C9: once reconciliation has inspected a directory that exists, no child
\* item is left for a path that is gone from disk; and no annotation is
\* emitted for an item that reconciliation has taken out of the tree, be it
\* through a status result or through a queue entry that was outstanding.
C9_NoAnnotationForRemovedItem ==
    /\ (last.op = "inspect" /\ last.error = None /\ last.arg \in disk
          /\ _get_item_from_path(nodes, last.arg) # NotFound)
        => \A c \in children_(nodes, _get_item_from_path(nodes, last.arg)) :
              nodes[c].pathobj \in disk
    /\ \A n \in last.emitted : Attached(nodes, n)

\* C10: delivering a status result whose path resolves to no item raises no
\* error in the browser's thread.
C10_UnresolvedResultRaisesNothing ==
    (/\ last.op = "deliver"
     /\ last.arg.action = "status"
     /\ last.arg.state # None
     /\ _get_item_from_path(nodes, last.arg.path) = NotFound)
    => last.error = None

C12_LookupIsStable ==
    /\ [](\A n \in DOMAIN nodes :
            Attached(nodes, n)
                => _get_item_from_path(nodes, nodes[n].pathobj) = n)
    /\ [][\A p \in Paths :
            LET n == _get_item_from_path(nodes, p)
            IN  n # NotFound
                  => /\ nodes'[n].pathobj = nodes[n].pathobj
                     /\ Attached(nodes', n)
                           => _get_item_from_path(nodes', p) = n]_vars

\* a reconciliation has added a child next to one it kept, in a directory
\* that was populated by an expansion before
C12_Witness ==
    /\ last.op = "inspect"
    /\ last.error = None
    /\ \E n, m \in DOMAIN nodes \ {RootItem} :
          /\ n < m
          /\ m = Len(nodes)
          /\ nodes[n].parent = nodes[m].parent
          /\ Attached(nodes, n) /\ Attached(nodes, m)
          /\ {n, m} \subseteq last.enq
          /\ nodes[nodes[n].parent].expanded

\* ---- paths and names
\* C13: the path of every item that has a parent is the parent's path joined
\* with the item's own name, and no two children of one item have the same
\* name. This holds after expansions, repeated expansions and
\* reconciliations.
C13_PathIsParentPathAndName ==
    \A n \in DOMAIN nodes :
        /\ nodes[n].parent # 0
              => /\ nodes[n].pathobj # Root
                 /\ nodes[n].pathobj =
                        JoinPath(nodes[nodes[n].parent].pathobj,
                                 <<PathName(nodes[n].pathobj)>>)
        /\ \A c1, c2 \in children_(nodes, n) :
              PathName(nodes[c1].pathobj) = PathName(nodes[c2].pathobj)
                  => c1 = c2

\* a directory with two children is expanded a second time
C13_Witness ==
    /\ last.op = "expand"
    /\ last.enq = {}
    /\ Cardinality(children_(nodes, last.arg)) >= 2
    /\ \E c \in children_(nodes, last.arg) : nodes[c].children # {}
\* ---- submission to the executor
\* C14: execute() never blocks. As long as the number of calls the model
\* follows is not used up, a call of execute() can be taken in every state
\* of the executor (idle, a command running, calls waiting), and the call is
\* over in one step that only appends to the work queue: it does not wait
\* for and does not touch the command that is running or its signals.
C14_ExecuteNeverBlocks ==
    /\ [](nexec < MaxCalls => ENABLED Execute)
    /\ [][last'.op = "execute"
            => /\ running' = running
               /\ nres' = nres
               /\ events' = events
               /\ Len(workq') = Len(workq) + 1
               /\ SubSeq(workq', 1, Len(workq)) = workq]_vars

\* execute() has returned while a command was running, had delivered a
\* result and another call was already waiting
C14_Witness ==
    /\ last.op = "execute"
    /\ running # NoCmd
    /\ nres > 0
    /\ Len(workq) >= 2
\* ---- listing entries without permission
\* what the tree widget takes for an item that can be expanded
Expandable(it) == it.children # {} \/ it.indicator = "show"

\* C15: an item made from a listing entry with status error and message
\* "Permissions denied" is disabled and, having no children, not expandable
\* (and never expanded); the listing it came from does not fail: the
\* expansion that populated a directory has made one child for every entry
\* of the directory, the siblings of the unreadable entry included.
C15_PermissionDeniedDisablesItem ==
    /\ \A n \in DOMAIN nodes \ {RootItem} :
          PermissionDenied(nodes[n].pathobj)
              => /\ nodes[n].disabled
                 /\ nodes[n].children = {} => ~Expandable(nodes[n])
                 /\ ~nodes[n].expanded
    /\ (last.op = "expand" /\ last.enq # {})
          => { nodes[c].pathobj : c \in children_(nodes, last.arg) }
                = Listing(disk, nodes[last.arg].pathobj)

\* the expansion of a directory has listed an unreadable entry next to a
\* readable one
C15_Witness ==
    /\ last.op = "expand"
    /\ last.enq # {}
    /\ \E c1, c2 \in children_(nodes, last.arg) :
          /\ PermissionDenied(nodes[c1].pathobj)
          /\ nodes[c1].disabled
          /\ ~PermissionDenied(nodes[c2].pathobj)
          /\ ~nodes[c2].disabled
\* ---- the annotation timer
\* C16: a tick that finds items queued drains the queue to the end, every
\* queued item once, and leaves the queue empty and the timer running. The
\* handler is one step of the browser's thread, hence no other tick starts
\* within it, and whenever no handler runs the timer is armed.
C16_TickDrainsAndRearms ==
    /\ []timerActive
    /\ [][(last'.op = "tick" /\ queue # {})
            => /\ queue' = {}
               /\ timerActive'
               /\ Len(last'.drained) = Cardinality(queue)
               /\ Range(last'.drained) = queue]_vars

\* a tick has drained two items
C16_Witness ==
    /\ last.op = "tick"
    /\ Len(last.drained) >= 2
    /\ queue = {}
    /\ timerActive

\* C17: a tick that finds the queue empty changes nothing: no item, no
\* queue, no subscription, no command, no signal and no watch changes, and
\* the timer stays armed.
C17_EmptyTickChangesNothing ==
    [][(last'.op = "tick" /\ queue = {})
        => /\ UNCHANGED <<nodes, queue, enqOrder, watched, conn>>
           /\ UNCHANGED exec_vars
           /\ UNCHANGED <<disk, notif>>
           /\ timerActive' /\ timerActive]_vars

\* a tick on the empty queue, taken after an earlier tick had subscribed to
\* results and a directory had been populated
C17_Witness ==
    /\ last.op = "tick"
    /\ last.drained = <<>>
    /\ conn > 0
    /\ Len(nodes) > 1
\* ---- status commands of a drain
\* a queued item for which the drain has to ask for the status
NeedsStatus(item) ==
    /\ HasDatasetRoot(disk, nodes[item].pathobj)
    /\ NonDirChildren(item) # {}

\* the status call the drain makes for the item
StatusCall(item) ==
    LET dsroot == get_dataset_root(disk, nodes[item].pathobj)
    IN  [cmd |-> "status", dataset |-> dsroot,
         path |-> { RelativeTo(nodes[c].pathobj, dsroot) :
                      c \in NonDirChildren(item) }]

\* C18: a tick submits, behind the calls that wait already, exactly one
\* status command for every drained item that has a dataset root and at
\* least one child that is no directory, with that root as the dataset and
\* the root-relative paths of these children as the paths; for a drained
\* item with a dataset root and no such child it submits nothing.
C18_OneStatusCommandPerDrainedItem ==
    [][last'.op = "tick"
        => LET new == SubSeq(workq', Len(workq) + 1, Len(workq'))
           IN  /\ Len(workq') >= Len(workq)
               /\ SubSeq(workq', 1, Len(workq)) = workq
               /\ last'.submitted = { i \in queue : NeedsStatus(i) }
               /\ Len(new) = Cardinality(last'.submitted)
               /\ nexec' = nexec + Len(new)
               /\ \A i \in queue :
                     NeedsStatus(i)
                       => Cardinality({ k \in 1..Len(new) :
                            /\ new[k].cmd = StatusCall(i).cmd
                            /\ new[k].dataset = StatusCall(i).dataset
                            /\ new[k].path = StatusCall(i).path }) = 1]_vars

\* one tick has drained an item of a dataset with a file below it, for
\* which it has submitted the status command, and an item of the same
\* dataset without children, for which it has not
C18_Witness ==
    /\ last.op = "tick"
    /\ Cardinality(last.submitted) = 1
    /\ \E i \in Range(last.drained) \ last.submitted :
          HasDatasetRoot(disk, nodes[i].pathobj)
    /\ \E k \in 1..Len(workq) :
          workq[k].dataset = <<"ds">> /\ workq[k].path = {<<"f">>}
\* ---- the subscription to the executor's signals
\* no status command waits, runs or has signals under way
NoStatusOutstanding ==
    /\ \A k \in 1..Len(workq) : workq[k].cmd # "status"
    /\ running.cmd # "status"
    /\ chan = <<>>

\* C19: the browser's subscription to the executor's results lasts only for
\* the batch of status commands it submitted: once the Finished signal of a
\* status execution has been handled and no status command is outstanding
\* any more, the browser is not subscribed to the results.
C19_SubscriptionEndsWithFinished ==
    (last.op = "deliver_finished" /\ NoStatusOutstanding) => conn = 0
\* ---- a command that does not come to an end
\* C20: there is no cancellation and no timeout. A command that has emitted
\* Started stays the running command until it ends by itself (its results
\* are exhausted or it raises); as long as it runs, calls of execute() only
\* pile up behind it and every signal the executor emits belongs to it, so
\* no command submitted later emits Started, however long it runs.
C20_NothingStartsBehindRunningCommand ==
    [][/\ last'.op = "started" => running = NoCmd
       /\ (running # NoCmd /\ running' # running)
             => /\ running' = NoCmd
                /\ last'.op \in {"finished", "raised"}
       /\ (running # NoCmd /\ running' = running)
             => /\ Len(workq') >= Len(workq)
                /\ SubSeq(workq', 1, Len(workq)) = workq
                /\ Len(events') > Len(events)
                      => /\ events'[Len(events')].sid = running.sid
                         /\ events'[Len(events')].ev # "started"]_vars

\* a command runs and has yielded what it yields, all other calls the model
\* follows wait behind it, and only this one command has emitted Started
C20_Witness ==
    /\ running # NoCmd
    /\ nres = MaxResults
    /\ Len(workq) = MaxCalls - 1
    /\ Cardinality({ i \in 1..Len(events) : events[i].ev = "started" }) = 1
\* ---- progress of the executor
\* the calls that have emitted Started, in the order of the signals
StartedSids ==
    LET idx == { i \in 1..Len(events) : events[i].ev = "started" }
    IN  [k \in 1..Cardinality(idx) |->
            events[CHOOSE i \in idx :
                     Cardinality({ j \in idx : j <= i }) = k].sid]

\* C21: with a scheduled worker and backend commands that end without
\* raising, every submitted command eventually emits Finished, and the
\* commands emit Started in the order of their submission (the k-th Started
\* is that of the k-th call of execute()).
C21_EverySubmittedCommandFinishes ==
    /\ [](\A k \in 1..Len(StartedSids) : StartedSids[k] = k)
    /\ \A sid \in 1..MaxCalls :
          (nexec >= sid) ~> (CountEvents("finished", sid) = 1)

\* all calls the model follows were submitted while the first command was
\* running, and all have emitted Started and Finished
C21_Witness ==
    /\ nexec = MaxCalls
    /\ Len(StartedSids) = MaxCalls
    /\ \A sid \in 1..MaxCalls : CountEvents("finished", sid) = 1
    /\ \E i \in 1..Len(events) :
          /\ events[i] = [ev |-> "finished", sid |-> 1]
          /\ Cardinality({ j \in 1..i : events[j].ev = "started" }) = 1
          /\ workq = <<>>
\* ---- reconciliation
\* C22: when the notification for a path is handled whose item has a parent
\* and whose path is gone from disk, the handler detaches the item from its
\* parent and stops there: it does not go on to list the vanished path (no
\* error of the listing leaves the handler) and changes nothing else.
C22_VanishedItemIsDetachedAndHandlerStops ==
    [][last'.op = "inspect"
        => LET item == _get_item_from_path(nodes, last'.arg)
           IN  (item # NotFound /\ last'.arg \notin disk
                /\ nodes[item].parent # 0)
                 => /\ nodes' = removeChild(nodes, nodes[item].parent, item)
                    /\ last'.error = None
                    /\ UNCHANGED <<queue, enqOrder, watched>>]_vars
\* C23: when the notification for a path is handled that resolves to no
\* item, the handler takes the path off the watch set and stops: items and
\* queue are unchanged and no error leaves the handler.
C23_UnresolvedPathIsUnwatched ==
    [][last'.op = "inspect"
        => (_get_item_from_path(nodes, last'.arg) = NotFound
              => /\ watched' = watched \ {last'.arg}
                 /\ last'.arg \notin watched'
                 /\ UNCHANGED <<nodes, queue, enqOrder>>
                 /\ last'.error = None)]_vars

\* the notification for a directory has been handled whose item an earlier
\* reconciliation of the parent directory had removed
C23_Witness ==
    /\ last.op = "inspect"
    /\ last.arg # Root
    /\ last.error = None
    /\ last.arg \notin disk
    /\ _get_item_from_path(nodes, last.arg) = NotFound
    /\ \E n \in DOMAIN nodes :
          nodes[n].pathobj = last.arg /\ ~Attached(nodes, n)
\* C24: after the reconciliation of an item whose path still exists, the
\* paths of its children are exactly the entries of the fresh listing.
\* Entries without a child have got a new item; children without an entry
\* are detached, and with them everything below them; a child with an entry
\* is the same item as before, with its own children and its expansion
\* state, and with type, disabled flag and child indicator as the listing
\* entry sets them.
C24_ReconcileMatchesListing ==
    [][last'.op = "inspect"
        => LET item == _get_item_from_path(nodes, last'.arg)
               new == Listing(disk, last'.arg)
           IN  (item # NotFound /\ last'.arg \in disk)
                 => /\ { nodes'[c].pathobj : c \in children_(nodes', item) }
                         = new
                    /\ \A c \in children_(nodes', item) \ children_(nodes, item) :
                          /\ c > Len(nodes)
                          /\ nodes'[c].pathobj
                                \notin { nodes[o].pathobj :
                                            o \in children_(nodes, item) }
                    /\ \A c \in children_(nodes, item) :
                          IF nodes[c].pathobj \in new
                          THEN /\ c \in children_(nodes', item)
                               /\ nodes'[c] =
                                     update_from_lsdir_result(
                                         nodes[c], LsdirResult(nodes[c].pathobj))
                               /\ nodes'[c].pathobj = nodes[c].pathobj
                               /\ nodes'[c].children = nodes[c].children
                               /\ nodes'[c].expanded = nodes[c].expanded
                               /\ nodes'[c].type = PathType(nodes[c].pathobj)
                               /\ nodes'[c].disabled
                                     = PermissionDenied(nodes[c].pathobj)
                          ELSE /\ c \notin children_(nodes', item)
                               /\ \A n \in DOMAIN nodes :
                                     IsPrefix(nodes[c].pathobj, nodes[n].pathobj)
                                       => ~Attached(nodes', n)]_vars

\* a reconciliation has added a child next to a child it kept, and the kept
\* child is expanded and has a child of its own
C24_Witness ==
    /\ last.op = "inspect"
    /\ last.error = None
    /\ last.arg \in disk
    /\ \E item \in DOMAIN nodes :
          /\ nodes[item].pathobj = last.arg
          /\ Attached(nodes, item)
          /\ \E k, a \in children_(nodes, item) :
                /\ k < a
                /\ a = Len(nodes)
                /\ nodes[k].expanded
                /\ \E g \in children_(nodes, k) : g < a
\* ---- the watch set under changes on disk
\* the expanded items that hang in the tree
AttachedExpandedPaths ==
    { nodes[n].pathobj :
        n \in { m \in DOMAIN nodes : Attached(nodes, m) /\ nodes[m].expanded } }

\* C25: whenever no change notification waits to be handled, the watch set
\* is exactly the set of the paths of the expanded items of the tree,
\* whatever the order of expansions, collapses, changes on disk and
\* reconciliations was; a path of an item that a reconciliation removed is
\* not watched.
C25_WatchSetIsExpandedPathsUnderChanges ==
    notif = {}
        => /\ watched = AttachedExpandedPaths
           /\ \A n \in DOMAIN nodes :
                 ~Attached(nodes, n) => nodes[n].pathobj \notin watched
\* ---- the queue and removed items
\* C26: the queue of items to annotate holds only items that hang in the
\* tree, and a tick drains only such items: it neither annotates children
\* of, nor submits a status command for, an item that reconciliation has
\* removed.
C26_QueueHoldsOnlyAttachedItems ==
    /\ \A n \in queue : Attached(nodes, n)
    /\ last.op = "tick"
          => \A n \in Range(last.drained) : Attached(nodes, n)
\* ---- status records without state
\* C27: when a status record without state, with status error and with a
\* message is delivered to the browser and its path resolves to an item, the
\* state of that item is the message afterwards.
C27_ErrorMessageBecomesState ==
    [][last'.op = "deliver"
        => LET res == last'.arg
               item == _get_item_from_path(nodes, res.path)
           IN  (res.action = "status" /\ res.state = None
                /\ res.status = "error" /\ res.message # None
                /\ item # NotFound)
                 => /\ nodes'[item].state = res.message
                    /\ nodes'[item] =
                          update_from_status_result(nodes[item], res)]_vars
====
